---- MODULE Spec2Model ----
(***************************************************************************)
(* Completion toggle and all-complete notification flow of the checklist  *)
(* application: ChecklistDetail.handleToggleComplete (pages/EditChecklist  *)
(* .tsx), the change-feed refresh of the detail view, the list pages'      *)
(* progress badges, and the tables, constraints and row-level-security     *)
(* policies of the schema migration the handler runs against.              *)
(*                                                                         *)
(* One checklist is modelled.  Two detail views (browser sessions) of the  *)
(* same signed-in user `who` are open on it; up to two invocations of      *)
(* handleToggleComplete are in flight at a time, in the same view or in    *)
(* different views.  Every await of the handler is a separate step.        *)
(***************************************************************************)
EXTENDS Integers, FiniteSets, Sequences, TLC

\* ---------------------------------------------------------------- bounds
MaxTasks == 2
MaxToggles == 3
MaxChannels == 3

Tasks == 1..MaxTasks
TheChecklist == "c1"
Departments == {"d1", "d2"}
NoTask == 0
Views == {"v1", "v2"}
Handlers == {"h1", "h2"}
NoFetch == -1

\* ------------------------------------------------------- rows of the store
\* auth.users / user_roles / profiles rows: three employees and three admins;
\* one employee and one admin have no phone number
Users == {"e1", "e2", "e3", "a1", "a2", "a3"}
user_roles == [u \in Users |-> IF u \in {"e1", "e2", "e3"} THEN "employee" ELSE "admin"]
profiles == [u \in Users |-> [phone |-> u \in {"e1", "e2", "a1", "a3"}]]

VARIABLES
  who,                \* the signed-in user of both views (useAuth().user)
  checklist_items,    \* ids of the checklist_items rows of the checklist
  task_completions,   \* [task -> number of task_completions rows (task, who, checklist)]
  notifications,      \* [user -> number of all_tasks_complete rows referencing the checklist]
  checklist,          \* [view -> checklist.items : task id -> completed]
  allCompletedNotified, \* [view -> allCompletedNotified.current]
  completing,         \* [view -> id of the item shown as in flight, or NoTask]
  feed,               \* [view -> a checklist_items change event awaits its fetchChecklist]
  handler,            \* [handler -> the state of one handleToggleComplete invocation]
  nToggles,           \* number of toggles started so far
  listFetch,          \* total_items read by a list page fetch awaiting its count, or NoFetch
  listRow,            \* the row a list page (Checklists, Dashboard) holds for the checklist
  nextTask,           \* the id the next inserted checklist_items row gets
  rt,                 \* observer of two successive toggles of one task
  checklists,         \* ids of the checklists rows
  employee_assignments,   \* the employee_assignments rows: <<user, department>>
  notifications_assigned, \* [user -> number of checklist_assigned rows referencing the checklist]
  create,             \* the state of one CreateChecklist.handleSubmit invocation
  ep,                 \* the request last served by send-notification and its outcome
  mu,                 \* the state of one manage-users invocation
  accounts,           \* the rows manage-users works on
  hook,               \* one useRealtime instance: stage, options of the last render, channelRef.current
  openChannels,       \* the channels open on the supabase client
  nChannels,          \* number of channels created so far
  delivered,          \* the change event last delivered and the handlers called for it
  notification_rows,  \* the notifications rows the Notifications page works on: [id -> row]
  notificationsPage   \* the Notifications page of `who`: its list, last toast and its target

createVars == <<checklists, employee_assignments, notifications_assigned, create>>
epVars == <<ep>>
muVars == <<mu, accounts>>
hookVars == <<hook, openChannels, nChannels, delivered>>
pageVars == <<notification_rows, notificationsPage>>

vars == <<who, checklist_items, task_completions, notifications, checklist,
          allCompletedNotified, completing, feed, handler, nToggles,
          listFetch, listRow, nextTask, rt, createVars, epVars, muVars, hookVars,
          pageVars>>

ZeroUsers == [u \in Users |-> 0]
EmptyItems == [i \in {} |-> FALSE]

IdleHandler ==
  [pc |-> "idle", view |-> "v1", item |-> NoTask, completed |-> FALSE,
   snap |-> EmptyItems, res |-> "none", fired |-> FALSE, admins |-> {},
   insert |-> "none", ins |-> ZeroUsers, profs |-> {}, todo |-> {},
   att |-> ZeroUsers, failed |-> {}, reported |-> FALSE]

\* CreateChecklist: the form as mounted, no submission running
IdleCreate ==
  [pc |-> "idle", departmentId |-> "d1", n |-> 0, createMode |-> "manual",
   uploadedImage |-> FALSE, fileType |-> "manual", assignments |-> {},
   profs |-> {}, todo |-> {}, att |-> ZeroUsers, failed |-> {},
   insert |-> "none", toast |-> "none"]

IdleEp == [variant |-> "none"]
\* manage-users: no request yet; the rows of one admin and one employee
IdleMu ==
  [pc |-> "idle", req |-> [method |-> "none"], callingUser |-> "none",
   status |-> 0, error |-> "", step |-> 0]
InitAccounts ==
  [auth |-> {"a1", "e1"}, profiles |-> {"a1", "e1"},
   roles |-> {<<"a1", "admin">>, <<"e1", "employee">>},
   assignments |-> {"e1"}, completions |-> {"e1"}, notifications |-> {"a1", "e1"}]

RtOff == [stage |-> "off", task |-> NoTask, h |-> "h1", r1 |-> "none", r2 |-> "none", left |-> 0]

\* ------------------------------------------------------------ the database
\* has_role(_user_id, 'admin')
has_role_admin(u) == user_roles[u] = "admin"

\* select user_id from user_roles where role = 'admin', as seen by caller
\* under the SELECT policies of user_roles
SelectAdminRoles(caller) ==
  {u \in Users : user_roles[u] = "admin" /\ (u = caller \/ has_role_admin(caller))}

\* select user_id, email, phone from profiles where user_id in ids, as seen
\* by caller under the SELECT policies of profiles
SelectProfiles(caller, ids) ==
  {u \in ids : u = caller \/ has_role_admin(caller)}

\* the insert without the UNIQUE constraint
DbInsertCompletionNoUnique(rows, its, t) ==
  IF t \notin its THEN [err |-> "fk", rows |-> rows]
  ELSE [err |-> "ok", rows |-> [rows EXCEPT ![t] = @ + 1]]

\* insert into task_completions: foreign key on checklist_items, then
\* UNIQUE (checklist_item_id, user_id, checklist_id)
DbInsertCompletion(rows, its, t) ==
  IF t \notin its THEN [err |-> "fk", rows |-> rows]
  ELSE IF rows[t] >= 1 THEN [err |-> "conflict", rows |-> rows]
  ELSE [err |-> "ok", rows |-> [rows EXCEPT ![t] = @ + 1]]

\* delete from task_completions where the triple matches: zero rows is no error
DbDeleteCompletion(rows, t) ==
  [err |-> "ok", rows |-> [rows EXCEPT ![t] = 0]]

RECURSIVE SumRows(_, _)
SumRows(rows, S) ==
  IF S = {} THEN 0
  ELSE LET t == CHOOSE x \in S : TRUE IN rows[t] + SumRows(rows, S \ {t})

\* select count(*) from task_completions where checklist_id = c and user_id = who
CountCompletions(rows) == SumRows(rows, Tasks)

\* ------------------------------------------------------ derived fullness
\* ChecklistDetail badge: completedCount, totalCount, progress, isComplete
DetailIsComplete(its) ==
  LET completedCount == Cardinality({t \in DOMAIN its : its[t]})
      totalCount == Cardinality(DOMAIN its)
      progressIs100 == IF totalCount > 0 THEN completedCount * 100 = 100 * totalCount
                       ELSE FALSE
  IN progressIs100 /\ totalCount > 0

\* Dashboard badge: progress === 100, progress being 0 for a checklist without items
DashboardIsComplete(c) ==
  IF c.total_items > 0 THEN c.completed_items * 100 = 100 * c.total_items
  ELSE FALSE

\* completedChecklists without its zero-task exclusion
ChecklistsCompletedNoExclusion(c) == c.completed_items = c.total_items

\* Checklists page: completedChecklists / pendingChecklists
ChecklistsCompleted(c) == c.total_items > 0 /\ c.completed_items = c.total_items
ChecklistsPending(c) == c.total_items = 0 \/ c.completed_items < c.total_items

\* handleToggleComplete: updatedItems and the notify decision
UpdatedItems(its, t) ==
  [i \in DOMAIN its |-> IF i = t THEN ~its[i] ELSE its[i]]
AllCompleted(its) == \A i \in DOMAIN its : its[i]
NotifyDecision(its, notified) ==
  AllCompleted(its) /\ ~notified /\ Cardinality(DOMAIN its) > 0

\* the fullness of (checklist, who) in the store
StoreFull ==
  /\ Cardinality(checklist_items) > 0
  /\ CountCompletions(task_completions) = Cardinality(checklist_items)

\* ------------------------------------------------------ useRealtime hook
EventKinds == {"INSERT", "UPDATE", "DELETE"}
HandlerNames == {"onChange", "onInsert", "onUpdate", "onDelete"}

\* The options of one render. identity tells two renders apart whose handlers
\* are different function objects (ChecklistDetail passes an arrow function
\* created by the render).
HookOptions ==
  [filter : {"none", "checklist_id=eq.c1"}, event : {"*", "INSERT"},
   supplied : {{}, {"onChange"}, {"onInsert", "onDelete"}, HandlerNames},
   identity : {0, 1}]

NoEvent == [eventType |-> "none"]
HookIdle ==
  /\ hook = [stage |-> "initial", options |-> [filter |-> "none"], channelRef |-> 0]
  /\ openChannels = {}
  /\ nChannels = 0
  /\ delivered = NoEvent

\* the Notifications page is not open and no notification is in its store
PageIdle ==
  /\ notification_rows = [i \in {} |-> FALSE]
  /\ notificationsPage = [list |-> [i \in {} |-> FALSE], toast |-> "none", target |-> "none"]

\* ----------------------------------------------------------------- Init
Init ==
  /\ who \in {"e1", "a1"}
  /\ checklist_items = {}
  /\ task_completions = [t \in Tasks |-> 0]
  /\ notifications = ZeroUsers
  /\ checklist = [v \in Views |-> EmptyItems]
  /\ allCompletedNotified = [v \in Views |-> FALSE]
  /\ completing = [v \in Views |-> NoTask]
  /\ feed = [v \in Views |-> FALSE]
  /\ handler = [h \in Handlers |-> IdleHandler]
  /\ nToggles = 0
  /\ listFetch = NoFetch
  /\ listRow = [total_items |-> 0, completed_items |-> 0]
  /\ nextTask = 1
  /\ rt = RtOff
  /\ checklists = {TheChecklist}
  /\ employee_assignments = {}
  /\ notifications_assigned = ZeroUsers
  /\ create = IdleCreate
  /\ ep = IdleEp
  /\ mu = IdleMu
  /\ accounts = InitAccounts
  /\ HookIdle
  /\ PageIdle

\* ------------------------------------------------- the observer of C4
\* a run starts with a toggle of a task that has no row and no toggle in flight
RtOnStart(h, t) ==
  IF rt.stage \in {"off", "done"}
  THEN IF task_completions[t] = 0
          /\ \A g \in Handlers : handler[g].pc = "idle" \/ handler[g].item # t
       THEN [RtOff EXCEPT !.stage = "first", !.task = t, !.h = h]
       ELSE RtOff
  ELSE IF rt.task # t THEN rt
  ELSE IF rt.stage = "mid" THEN [rt EXCEPT !.stage = "second", !.h = h]
  ELSE RtOff

RtOnRespond(h, res, completed) ==
  IF rt.stage \in {"first", "second"} /\ rt.h = h
  THEN LET r == IF res = "ok" THEN (IF completed THEN "true" ELSE "false") ELSE "error" IN
       IF res \in {"neterr", "fk"} THEN RtOff
       ELSE IF rt.stage = "first" THEN [rt EXCEPT !.stage = "mid", !.r1 = r]
       ELSE [rt EXCEPT !.stage = "done", !.r2 = r, !.left = task_completions[rt.task]]
  ELSE rt

RtOnRemove(t) ==
  IF rt.task = t /\ rt.stage \notin {"off", "done"} THEN RtOff ELSE rt

\* --------------------------------------------------------- admin edits
\* EditChecklist.handleSubmit: insert of a new task; the change feed delivers
\* the checklist_items event to every mounted detail view
AdminAddTask(t) ==
  /\ t = nextTask
  /\ nextTask' = nextTask + 1
  /\ checklist_items' = checklist_items \cup {t}
  /\ feed' = [v \in Views |-> TRUE]
  /\ UNCHANGED <<createVars, epVars, hookVars, muVars, who, task_completions, notifications, checklist, allCompletedNotified,
                 completing, handler, nToggles, listFetch, listRow, rt, pageVars>>

\* EditChecklist.handleSubmit: delete of a removed task and of its completions
\* (the rows go with the task by ON DELETE CASCADE)
AdminRemoveTask(t) ==
  /\ t \in checklist_items
  /\ checklist_items' = checklist_items \ {t}
  /\ task_completions' = [task_completions EXCEPT ![t] = 0]
  /\ feed' = [v \in Views |-> TRUE]
  /\ rt' = RtOnRemove(t)
  /\ UNCHANGED <<createVars, epVars, hookVars, muVars, who, notifications, checklist, allCompletedNotified,
                 completing, handler, nToggles, listFetch, listRow, nextTask, pageVars>>

\* ------------------------------------------------------ ChecklistDetail
\* useRealtime(checklist_items).onChange -> fetchChecklist -> setChecklist
fetchChecklist(v) ==
  /\ feed[v]
  /\ feed' = [feed EXCEPT ![v] = FALSE]
  /\ checklist' = [checklist EXCEPT
                     ![v] = [t \in checklist_items |-> task_completions[t] > 0]]
  /\ UNCHANGED <<createVars, epVars, hookVars, muVars, who, checklist_items, task_completions, notifications,
                 allCompletedNotified, completing, handler, nToggles,
                 listFetch, listRow, rt, nextTask, pageVars>>

\* the handler leaves the try block with the state hs
Finish(h, hs) ==
  /\ handler' = [handler EXCEPT ![h] = [hs EXCEPT !.pc = "finally"]]
  /\ UNCHANGED completing

\* the finally block: setCompleting(null); the invocation is over
Finally(h) ==
  /\ handler[h].pc = "finally"
  /\ handler' = [handler EXCEPT ![h] = IdleHandler]
  /\ completing' = [completing EXCEPT ![handler[h].view] = NoTask]
  /\ UNCHANGED <<createVars, epVars, hookVars, muVars, who, checklist_items, task_completions, notifications, checklist,
                 allCompletedNotified, feed, nToggles, listFetch, listRow, nextTask, rt, pageVars>>

\* the user clicks the checkbox of item t in view v: the handler starts with
\* the item and the checklist of that render, and issues the write
StartToggle(h, v, t) ==
  /\ handler[h].pc = "idle"
  /\ nToggles < MaxToggles
  /\ t \in DOMAIN checklist[v]
  /\ completing[v] # t
  /\ nToggles' = nToggles + 1
  /\ completing' = [completing EXCEPT ![v] = t]
  /\ handler' = [handler EXCEPT ![h] =
                   [IdleHandler EXCEPT !.pc = "write", !.view = v, !.item = t,
                                       !.completed = checklist[v][t],
                                       !.snap = checklist[v]]]
  /\ rt' = RtOnStart(h, t)
  /\ UNCHANGED <<createVars, epVars, hookVars, muVars, who, checklist_items, task_completions, notifications, checklist,
                 allCompletedNotified, feed, listFetch, listRow, nextTask, pageVars>>

\* the store executes the write: a delete when the item of the render was
\* completed, an insert otherwise; the request may also fail on the way
WriteCompletion(h, netfail) ==
  /\ handler[h].pc = "write"
  /\ LET t == handler[h].item
         r == IF netfail THEN [err |-> "neterr", rows |-> task_completions]
              ELSE IF handler[h].completed THEN DbDeleteCompletion(task_completions, t)
              ELSE DbInsertCompletion(task_completions, checklist_items, t)
     IN /\ task_completions' = r.rows
        /\ handler' = [handler EXCEPT ![h].pc = "resp", ![h].res = r.err]
  /\ UNCHANGED <<createVars, epVars, hookVars, muVars, who, checklist_items, notifications, checklist, allCompletedNotified,
                 completing, feed, nToggles, listFetch, listRow, rt, nextTask, pageVars>>

\* an error check that lets every response through
WriteFailedIgnored(res) == FALSE

\* if (error) throw error, after the delete and after the insert
WriteFailed(res) == res # "ok"

\* the response arrives: on error the catch block reports the failure
\* (toast.error) and the finally block follows; otherwise
\* the view is set from the render's items and the notify decision is taken
Respond(h) ==
  /\ handler[h].pc = "resp"
  /\ LET v == handler[h].view
         updatedItems == UpdatedItems(handler[h].snap, handler[h].item)
     IN IF WriteFailed(handler[h].res)
        THEN /\ Finish(h, [handler[h] EXCEPT !.reported = TRUE])
             /\ UNCHANGED <<checklist, allCompletedNotified>>
        ELSE /\ checklist' = [checklist EXCEPT ![v] = updatedItems]
             /\ IF NotifyDecision(updatedItems, allCompletedNotified[v])
                THEN /\ allCompletedNotified' = [allCompletedNotified EXCEPT ![v] = TRUE]
                     /\ handler' = [handler EXCEPT ![h].pc = "notify", ![h].fired = TRUE]
                     /\ UNCHANGED completing
                ELSE /\ allCompletedNotified' =
                          IF ~AllCompleted(updatedItems)
                          THEN [allCompletedNotified EXCEPT ![v] = FALSE]
                          ELSE allCompletedNotified
                     /\ Finish(h, handler[h])
  /\ rt' = RtOnRespond(h, handler[h].res, ~handler[h].completed)
  /\ UNCHANGED <<createVars, epVars, hookVars, muVars, who, checklist_items, task_completions, notifications, feed,
                 nToggles, listFetch, listRow, nextTask, pageVars>>

\* the profiles of S with a phone number
HasPhone(S) == {u \in S : profiles[u].phone}

\* a notify pass that starts its dispatch loop before the batch insert
SelectAdminsDispatchFirst(h) ==
  /\ handler[h].pc = "notify"
  /\ LET admins == SelectAdminRoles(who) IN
     IF HasPhone(SelectProfiles(who, admins)) = {}
     THEN Finish(h, handler[h])
     ELSE /\ handler' = [handler EXCEPT ![h].pc = "dispatch", ![h].admins = admins,
                                        ![h].todo = SelectProfiles(who, admins)]
          /\ UNCHANGED completing
  /\ UNCHANGED <<createVars, epVars, hookVars, muVars, who, checklist_items, task_completions, notifications, checklist,
                 allCompletedNotified, feed, nToggles, listFetch, listRow, rt, nextTask, pageVars>>

\* the notify pass reads the employee profile and the admin roles; with no
\* admin visible it ends, otherwise it issues the batch insert
SelectAdmins(h) ==
  /\ handler[h].pc = "notify"
  /\ LET admins == SelectAdminRoles(who) IN
     IF admins = {}
     THEN Finish(h, handler[h])
     ELSE /\ handler' = [handler EXCEPT ![h].pc = "insert", ![h].admins = admins,
                                        ![h].insert = "issued"]
          /\ UNCHANGED completing
  /\ UNCHANGED <<createVars, epVars, hookVars, muVars, who, checklist_items, task_completions, notifications, checklist,
                 allCompletedNotified, feed, nToggles, listFetch, listRow, rt, nextTask, pageVars>>

\* the batch insert returns (its error is not looked at), then the admin
\* profiles are read; the loop ends at once when no profile has a phone
InsertNotifications(h, fail) ==
  /\ handler[h].pc = "insert"
  /\ LET admins == handler[h].admins
         adminProfiles == SelectProfiles(who, admins)
         hs == [handler[h] EXCEPT
                  !.insert = IF fail THEN "failed" ELSE "ok",
                  !.ins = IF fail THEN @ ELSE [u \in Users |-> IF u \in admins THEN 1 ELSE 0],
                  !.profs = adminProfiles,
                  !.todo = adminProfiles]
     IN /\ notifications' = IF fail THEN notifications
                            ELSE [u \in Users |-> IF u \in admins THEN notifications[u] + 1
                                                  ELSE notifications[u]]
        /\ IF HasPhone(adminProfiles) = {}
           THEN Finish(h, hs)
           ELSE /\ handler' = [handler EXCEPT ![h] = [hs EXCEPT !.pc = "dispatch"]]
                /\ UNCHANGED completing
  /\ UNCHANGED <<createVars, epVars, hookVars, muVars, who, checklist_items, task_completions, checklist,
                 allCompletedNotified, feed, nToggles, listFetch, listRow, rt, nextTask, pageVars>>

\* one iteration of the loop over adminProfiles that reaches
\* functions.invoke('send-notification'); a failure is caught and logged
Dispatch(h, ok) ==
  /\ handler[h].pc = "dispatch"
  /\ \E u \in HasPhone(handler[h].todo) :
       LET hs == [handler[h] EXCEPT
                    !.todo = @ \ {u},
                    !.att = [@ EXCEPT ![u] = @ + 1],
                    !.failed = IF ok THEN @ ELSE @ \cup {u}]
       IN IF HasPhone(hs.todo) = {}
          THEN Finish(h, hs)
          ELSE /\ handler' = [handler EXCEPT ![h] = hs]
               /\ UNCHANGED completing
  /\ UNCHANGED <<createVars, epVars, hookVars, muVars, who, checklist_items, task_completions, notifications, checklist,
                 allCompletedNotified, feed, nToggles, listFetch, listRow, rt, nextTask, pageVars>>

\* ------------------------------------------- Checklists / Dashboard page
\* fetchChecklists / fetchDashboardData: the checklist with its items is read
ListFetchItems ==
  /\ listFetch = NoFetch
  /\ listFetch' = Cardinality(checklist_items)
  /\ UNCHANGED <<createVars, epVars, hookVars, muVars, who, checklist_items, task_completions, notifications, checklist,
                 allCompletedNotified, completing, feed, handler, nToggles, listRow, rt, nextTask, pageVars>>

\* then the completion count is read and the page state is set
ListFetchCount ==
  /\ listFetch # NoFetch
  /\ listRow' = [total_items |-> listFetch,
                 completed_items |-> CountCompletions(task_completions)]
  /\ listFetch' = NoFetch
  /\ UNCHANGED <<createVars, epVars, hookVars, muVars, who, checklist_items, task_completions, notifications, checklist,
                 allCompletedNotified, completing, feed, handler, nToggles, rt, nextTask, pageVars>>

\* ------------------------------------------------------- CreateChecklist
\* checklists.file_type CHECK and notifications.type CHECK
FileTypes == {"image", "xlsx", "manual"}
NotificationTypes == {"checklist_update", "task_complete", "all_tasks_complete"}

\* insert into checklists by caller: the admin policy, then the CHECK
DbInsertChecklist(caller, fileType) ==
  IF ~has_role_admin(caller) THEN "policy"
  ELSE IF fileType \notin FileTypes THEN "check"
  ELSE "ok"

\* batch insert into notifications of one row of the given type per recipient
DbInsertNotifications(rows, recipients, type) ==
  IF type \notin NotificationTypes THEN [err |-> "check", rows |-> rows]
  ELSE [err |-> "ok", rows |-> [u \in Users |-> IF u \in recipients THEN rows[u] + 1 ELSE rows[u]]]

\* select user_id from employee_assignments where department_id = d, as seen
\* by caller under the policies of employee_assignments
SelectAssignments(caller, d) ==
  {u \in Users : <<u, d>> \in employee_assignments /\ (u = caller \/ has_role_admin(caller))}

\* the catch block: toast.error; the finally block follows
CreateFail == create' = [create EXCEPT !.pc = "finally", !.toast = "failure"]

\* toast.success('Checklist created!'), navigate; the finally block follows
CreateSucceed(cs) == create' = [cs EXCEPT !.pc = "finally", !.toast = "success"]

\* handleSubmit up to its first await: the validations pass
CreateSubmit(d, n, mode, img) ==
  /\ create.pc = "idle"
  /\ checklists = {}
  /\ mode = "manual" => n > 0
  /\ mode = "image" => img
  /\ create' = [IdleCreate EXCEPT !.pc = IF img THEN "upload" ELSE "checklist",
                                  !.departmentId = d, !.n = n, !.createMode = mode,
                                  !.uploadedImage = img, !.fileType = mode]
  /\ UNCHANGED <<who, checklist_items, task_completions, notifications, checklist,
                 allCompletedNotified, completing, feed, handler, nToggles,
                 listFetch, listRow, nextTask, rt, checklists, employee_assignments,
                 notifications_assigned, epVars, hookVars, muVars, pageVars>>

\* the upload of the image to storage
CreateUpload(fail) ==
  /\ create.pc = "upload"
  /\ IF fail THEN CreateFail
     ELSE create' = [create EXCEPT !.pc = "checklist", !.fileType = "image"]
  /\ UNCHANGED <<who, checklist_items, task_completions, notifications, checklist,
                 allCompletedNotified, completing, feed, handler, nToggles,
                 listFetch, listRow, nextTask, rt, checklists, employee_assignments,
                 notifications_assigned, epVars, hookVars, muVars, pageVars>>

\* insert into checklists ... select().single()
CreateInsertChecklist(netfail) ==
  /\ create.pc = "checklist"
  /\ LET err == IF netfail THEN "neterr" ELSE DbInsertChecklist(who, create.fileType) IN
     IF err # "ok"
     THEN CreateFail /\ UNCHANGED checklists
     ELSE /\ checklists' = {TheChecklist}
          /\ create' = [create EXCEPT !.pc = IF create.n > 0 THEN "items" ELSE "assignments"]
  /\ UNCHANGED <<who, checklist_items, task_completions, notifications, checklist,
                 allCompletedNotified, completing, feed, handler, nToggles,
                 listFetch, listRow, nextTask, rt, employee_assignments,
                 notifications_assigned, epVars, hookVars, muVars, pageVars>>

\* insert of the valid tasks into checklist_items
CreateInsertItems(fail) ==
  /\ create.pc = "items"
  /\ IF fail
     THEN CreateFail /\ UNCHANGED <<checklist_items, nextTask>>
     ELSE /\ checklist_items' = 1..create.n
          /\ nextTask' = create.n + 1
          /\ create' = [create EXCEPT !.pc = "assignments"]
  /\ UNCHANGED <<who, task_completions, notifications, checklist,
                 allCompletedNotified, completing, feed, handler, nToggles,
                 listFetch, listRow, rt, checklists, employee_assignments,
                 notifications_assigned, epVars, hookVars, muVars, pageVars>>

\* the read of the department's assignments; without rows (or data) the
\* notify block is skipped
CreateSelectAssignments(fail) ==
  /\ create.pc = "assignments"
  /\ LET assignments == IF fail THEN {} ELSE SelectAssignments(who, create.departmentId) IN
     IF assignments = {}
     THEN CreateSucceed(create)
     ELSE create' = [create EXCEPT !.pc = "profiles", !.assignments = assignments]
  /\ UNCHANGED <<who, checklist_items, task_completions, notifications, checklist,
                 allCompletedNotified, completing, feed, handler, nToggles,
                 listFetch, listRow, nextTask, rt, checklists, employee_assignments,
                 notifications_assigned, epVars, hookVars, muVars, pageVars>>

\* the read of the employees' profiles; without data the loop is skipped
CreateSelectProfiles(fail) ==
  /\ create.pc = "profiles"
  /\ LET employeeProfiles == IF fail THEN {} ELSE SelectProfiles(who, create.assignments) IN
     create' = [create EXCEPT
                  !.pc = IF HasPhone(employeeProfiles) = {} THEN "insert" ELSE "dispatch",
                  !.profs = employeeProfiles, !.todo = employeeProfiles]
  /\ UNCHANGED <<who, checklist_items, task_completions, notifications, checklist,
                 allCompletedNotified, completing, feed, handler, nToggles,
                 listFetch, listRow, nextTask, rt, checklists, employee_assignments,
                 notifications_assigned, epVars, hookVars, muVars, pageVars>>

\* a dispatch loop that a failed dispatch ends
CreateDispatchNoCatch(ok) ==
  /\ create.pc = "dispatch"
  /\ \E u \in HasPhone(create.todo) :
       LET cs == [create EXCEPT
                    !.todo = @ \ {u},
                    !.att = [@ EXCEPT ![u] = @ + 1],
                    !.failed = IF ok THEN @ ELSE @ \cup {u}]
       IN IF ~ok THEN create' = [cs EXCEPT !.pc = "finally", !.toast = "failure"]
          ELSE create' = [cs EXCEPT !.pc = IF HasPhone(cs.todo) = {} THEN "insert" ELSE "dispatch"]
  /\ UNCHANGED <<who, checklist_items, task_completions, notifications, checklist,
                 allCompletedNotified, completing, feed, handler, nToggles,
                 listFetch, listRow, nextTask, rt, checklists, employee_assignments,
                 notifications_assigned, epVars, hookVars, muVars, pageVars>>

\* one iteration of the loop over employeeProfiles that reaches
\* functions.invoke('send-notification'); a failure is caught and logged
CreateDispatch(ok) ==
  /\ create.pc = "dispatch"
  /\ \E u \in HasPhone(create.todo) :
       LET cs == [create EXCEPT
                    !.todo = @ \ {u},
                    !.att = [@ EXCEPT ![u] = @ + 1],
                    !.failed = IF ok THEN @ ELSE @ \cup {u}]
       IN create' = [cs EXCEPT !.pc = IF HasPhone(cs.todo) = {} THEN "insert" ELSE "dispatch"]
  /\ UNCHANGED <<who, checklist_items, task_completions, notifications, checklist,
                 allCompletedNotified, completing, feed, handler, nToggles,
                 listFetch, listRow, nextTask, rt, checklists, employee_assignments,
                 notifications_assigned, epVars, hookVars, muVars, pageVars>>

\* the batch insert of the in-app records (its error is not looked at), then
\* the success toast and the navigation
CreateInsertNotifications(netfail) ==
  /\ create.pc = "insert"
  /\ LET r == IF netfail THEN [err |-> "neterr", rows |-> notifications_assigned]
              ELSE DbInsertNotifications(notifications_assigned, create.assignments,
                                         "checklist_assigned")
     IN /\ notifications_assigned' = r.rows
        /\ CreateSucceed([create EXCEPT !.insert = r.err])
  /\ UNCHANGED <<who, checklist_items, task_completions, notifications, checklist,
                 allCompletedNotified, completing, feed, handler, nToggles,
                 listFetch, listRow, nextTask, rt, checklists, employee_assignments,
                 epVars, hookVars, muVars, pageVars>>

\* the finally block: setIsSubmitting(false); the invocation is over (what the
\* pass logged of its dispatches stays on the console)
CreateFinally ==
  /\ create.pc = "finally"
  /\ create' = [IdleCreate EXCEPT !.profs = create.profs, !.att = create.att,
                                  !.failed = create.failed]
  /\ UNCHANGED <<who, checklist_items, task_completions, notifications, checklist,
                 allCompletedNotified, completing, feed, handler, nToggles,
                 listFetch, listRow, nextTask, rt, checklists, employee_assignments,
                 notifications_assigned, epVars, hookVars, muVars, pageVars>>

\* ChecklistDetail is mounted on the checklist: fresh state and ref, and the
\* mount effect calls fetchChecklist
MountDetail(v) ==
  /\ checklists # {}
  /\ create.pc = "idle"
  /\ \A h \in Handlers : handler[h].pc = "idle"
  /\ ~feed[v]
  /\ checklist' = [checklist EXCEPT ![v] = EmptyItems]
  /\ allCompletedNotified' = [allCompletedNotified EXCEPT ![v] = FALSE]
  /\ completing' = [completing EXCEPT ![v] = NoTask]
  /\ feed' = [feed EXCEPT ![v] = TRUE]
  /\ UNCHANGED <<createVars, epVars, hookVars, muVars, who, checklist_items, task_completions,
                 notifications, handler, nToggles, listFetch, listRow, nextTask, rt, pageVars>>

\* ------------------------------------------ send-notification endpoint
\* The function file holds three handlers: the one taking title and message,
\* the one sending per channel, and the one taking a notificationType.
\* Strings are held by their lengths; an error text is a sequence of parts.
MaxTitleLen == 200
MaxMessageLen == 2000

Methods == {"OPTIONS", "POST"}
\* Authorization header: absent, another scheme, Bearer with a token the auth
\* service does not resolve, Bearer with a user's token
AuthHeaders == {"none", "basic", "bearer_unknown", "bearer_user"}
\* a fetch to the provider: 2xx, another status, or a thrown network error
Outcomes == {"ok", "http", "throw"}
TitleLens == {0, MaxTitleLen, MaxTitleLen + 1}
MessageLens == {0, MaxMessageLen, MaxMessageLen + 1}
EmployeeNameLens == {0, MaxMessageLen}
DepartmentNameLens == {0, MaxTitleLen, MaxTitleLen + 1}
ChecklistTitleLens == {0, MaxTitleLen}
NotificationKinds == {"", "checklist_assigned", "checklist_completed"}

\* NotificationRequest of the first two handlers, and of the third
MessageRequests ==
  [method : Methods, auth : AuthHeaders, userId : BOOLEAN, userEmail : BOOLEAN,
   userPhone : BOOLEAN, title : TitleLens, message : MessageLens,
   sendSms : BOOLEAN, sendCall : BOOLEAN]
TypedRequests ==
  [method : Methods, auth : AuthHeaders, userId : BOOLEAN, userEmail : BOOLEAN,
   userPhone : BOOLEAN, employeeName : EmployeeNameLens,
   departmentName : DepartmentNameLens, checklistTitle : ChecklistTitleLens,
   notificationType : NotificationKinds]

\* what the handler meets: the provider credentials in the environment, a
\* body that parses, and the outcome of each fetch in turn
SingleCallEnvs == [configured : BOOLEAN, bodyOk : BOOLEAN, out : [{1} -> Outcomes]]
ChannelEnvs == [configured : BOOLEAN, bodyOk : BOOLEAN, out : [{1, 2, 3} -> Outcomes]]

NoResp == [status |-> 0]
NoEnv == [configured |-> FALSE]

Reply(status, success, error, exc, calls, channels) ==
  [status |-> status, success |-> success, error |-> error, exc |-> exc,
   calls |-> calls, channels |-> channels]

\* authHeader?.startsWith('Bearer ') and supabase.auth.getUser()
BearerScheme(auth) == auth \in {"bearer_unknown", "bearer_user"}
GetUser(auth) == auth = "bearer_user"

\* the CORS preflight answer
Preflight == Reply(200, "absent", <<>>, <<>>, <<>>, {})
\* catch of the first and third handler: the exception is logged only
GenericCatch(exc, calls) ==
  Reply(500, "false", <<"An unexpected error occurred">>, exc, calls, {})
\* catch of the second handler: the exception's message is the error
MessageCatch(exc, calls) == Reply(500, "false", exc, exc, calls, {})

\* the exception a provider fetch ends in: thrown by fetch, or built from the
\* provider's answer
FetchError == <<"fetch failed">>
APIFailed == <<"NotificationAPI failed: ", "provider.errorText">>
APIError == <<"NotificationAPI error: ", "provider.status">>

\* serve of the title/message handler
TitleHandler(req, env) ==
  IF req.method = "OPTIONS" THEN Preflight
  ELSE IF ~BearerScheme(req.auth)
  THEN Reply(401, "absent", <<"Unauthorized">>, <<>>, <<>>, {})
  ELSE IF ~GetUser(req.auth)
  THEN Reply(401, "absent", <<"Invalid authentication">>, <<>>, <<>>, {})
  ELSE IF ~env.configured
  THEN Reply(500, "false", <<"Notification service not configured">>, <<>>, <<>>, {})
  ELSE IF ~env.bodyOk THEN GenericCatch(<<"Unexpected token in JSON">>, <<>>)
  ELSE IF ~req.userId \/ ~req.userEmail \/ req.title = 0 \/ req.message = 0
  THEN Reply(400, "false", <<"Missing required fields">>, <<>>, <<>>, {})
  ELSE IF req.title > MaxTitleLen \/ req.message > MaxMessageLen
  THEN Reply(400, "false", <<"Title or message too long">>, <<>>, <<>>, {})
  ELSE LET call == [notificationId |-> "hr_management", email |-> req.userEmail,
                    number |-> req.userPhone, title |-> req.title,
                    message |-> req.message]
       IN IF env.out[1] = "ok" THEN Reply(200, "true", <<>>, <<>>, <<call>>, {})
          ELSE IF env.out[1] = "http" THEN GenericCatch(APIFailed, <<call>>)
          ELSE GenericCatch(FetchError, <<call>>)

\* serve of the per-channel handler
ChannelsHandler(req, env) ==
  IF req.method = "OPTIONS" THEN Preflight
  ELSE IF ~env.configured
  THEN MessageCatch(<<"NotificationAPI credentials not configured">>, <<>>)
  ELSE IF ~env.bodyOk THEN MessageCatch(<<"Unexpected token in JSON">>, <<>>)
  ELSE LET email == [notificationId |-> "checklist_complete", email |-> req.userEmail,
                     number |-> req.userPhone, title |-> req.title,
                     message |-> req.message]
           sms == [notificationId |-> "checklist_complete_sms", email |-> FALSE,
                   number |-> TRUE, title |-> req.title, message |-> req.message]
           call == [notificationId |-> "checklist_complete_call", email |-> FALSE,
                    number |-> TRUE, title |-> req.title, message |-> req.message]
           wantSms == req.sendSms /\ req.userPhone
           wantCall == req.sendCall /\ req.userPhone
           c2 == IF wantSms THEN <<email, sms>> ELSE <<email>>
           c3 == IF wantCall THEN Append(c2, call) ELSE c2
           pushed ==
             (IF wantSms /\ env.out[2] = "ok" THEN {"sms"} ELSE {}) \cup
             (IF wantCall /\ env.out[3] = "ok" THEN {"call"} ELSE {})
       IN IF env.out[1] = "throw" THEN MessageCatch(FetchError, <<email>>)
          ELSE IF env.out[1] = "http" THEN MessageCatch(APIError, <<email>>)
          ELSE IF wantSms /\ env.out[2] = "throw" THEN MessageCatch(FetchError, c2)
          ELSE IF wantCall /\ env.out[3] = "throw" THEN MessageCatch(FetchError, c3)
          ELSE Reply(200, "true", <<>>, <<>>, c3, {"email"} \cup pushed)

\* a || 'default', on lengths
OrElse(n, default) == IF n = 0 THEN Len(default) ELSE n

\* the merge tags sendNotificationAPI of the third handler builds
BuiltTitle(req) ==
  IF req.notificationType = "checklist_assigned"
  THEN OrElse(req.departmentName, "Department")
  ELSE Len("Checklist Completed")
BuiltMessage(req) ==
  IF req.notificationType = "checklist_assigned"
  THEN OrElse(req.employeeName, "Employee")
       + Len(", the admin has given you a checklist \"")
       + OrElse(req.checklistTitle, "New Checklist") + Len("\". Start doing it.")
  ELSE OrElse(req.employeeName, "Employee") + Len(" in \"")
       + OrElse(req.departmentName, "Department")
       + Len("\" has completed the checklist assigned to them.")

\* serve of the notificationType handler
TypedHandler(req, env) ==
  IF req.method = "OPTIONS" THEN Preflight
  ELSE IF ~BearerScheme(req.auth)
  THEN Reply(401, "absent", <<"Unauthorized">>, <<>>, <<>>, {})
  ELSE IF ~GetUser(req.auth)
  THEN Reply(401, "absent", <<"Invalid authentication">>, <<>>, <<>>, {})
  ELSE IF ~env.configured
  THEN Reply(500, "false", <<"Notification service not configured">>, <<>>, <<>>, {})
  ELSE IF ~env.bodyOk THEN GenericCatch(<<"Unexpected token in JSON">>, <<>>)
  ELSE IF ~req.userId \/ ~req.userEmail \/ req.notificationType = ""
  THEN Reply(400, "false",
             <<"Missing required fields: userId, userEmail, notificationType">>,
             <<>>, <<>>, {})
  ELSE IF ~req.userPhone THEN Reply(200, "true", <<>>, <<>>, <<>>, {})
  ELSE LET call == [notificationId |-> "notificantios", email |-> req.userEmail,
                    number |-> TRUE, title |-> BuiltTitle(req),
                    message |-> BuiltMessage(req)]
       IN IF env.out[1] = "ok" THEN Reply(200, "true", <<>>, <<>>, <<call>>, {})
          ELSE IF env.out[1] = "http" THEN GenericCatch(APIFailed, <<call>>)
          ELSE GenericCatch(FetchError, <<call>>)

\* a request arrives at one of the handlers and is answered
ServeTitle(env) ==
  /\ ep.variant = "title" /\ ep.resp = NoResp
  /\ ep' = [ep EXCEPT !.env = env, !.resp = TitleHandler(ep.req, env)]
  /\ UNCHANGED <<who, checklist_items, task_completions, notifications, checklist,
                 allCompletedNotified, completing, feed, handler, nToggles,
                 listFetch, listRow, nextTask, rt, createVars, muVars, hookVars, pageVars>>

ServeChannels(env) ==
  /\ ep.variant = "channels" /\ ep.resp = NoResp
  /\ ep' = [ep EXCEPT !.env = env, !.resp = ChannelsHandler(ep.req, env)]
  /\ UNCHANGED <<who, checklist_items, task_completions, notifications, checklist,
                 allCompletedNotified, completing, feed, handler, nToggles,
                 listFetch, listRow, nextTask, rt, createVars, muVars, hookVars, pageVars>>

ServeTyped(env) ==
  /\ ep.variant = "typed" /\ ep.resp = NoResp
  /\ ep' = [ep EXCEPT !.env = env, !.resp = TypedHandler(ep.req, env)]
  /\ UNCHANGED <<who, checklist_items, task_completions, notifications, checklist,
                 allCompletedNotified, completing, feed, handler, nToggles,
                 listFetch, listRow, nextTask, rt, createVars, muVars, hookVars, pageVars>>

\* ----------------------------------------------- manage-users endpoint
\* The handler works with the service-role client on the rows of these users;
\* NewUser is the id auth.admin.createUser gives to the identity it creates.
NewUser == "n1"
MuUsers == {"a1", "e1", NewUser}
Roles == {"admin", "employee"}

\* Deno.env.get('SUPABASE_SERVICE_ROLE_KEY'): the platform sets it for every
\* function, like SUPABASE_URL and SUPABASE_ANON_KEY
ServiceRoleKey == TRUE

\* Authorization header: absent, a token of nobody, or the token of a user
MuTokens == {"none", "unknown"} \cup MuUsers
MuBodies ==
  [action : {"create"}, complete : BOOLEAN, role : Roles \cup {"none"}]
    \cup [action : {"delete"}, userId : MuUsers \cup {"none"}]
    \cup [action : {"other", "malformed"}]
MuRequests == [method : Methods, auth : MuTokens, body : MuBodies]

\* a delete of the identity alone
DeleteAuthUserNoCascade(acc, u) == [acc EXCEPT !.auth = @ \ {u}]

\* auth.admin.deleteUser: the rows that reference the identity go with it
\* (ON DELETE CASCADE)
DeleteAuthUser(acc, u) ==
  [auth |-> acc.auth \ {u}, profiles |-> acc.profiles \ {u},
   roles |-> {r \in acc.roles : r[1] # u}, assignments |-> acc.assignments \ {u},
   completions |-> acc.completions \ {u}, notifications |-> acc.notifications \ {u}]

\* delete from <table> where user_id = u
DeleteRows(acc, table, u) ==
  CASE table = "assignments" -> [acc EXCEPT !.assignments = @ \ {u}]
    [] table = "completions" -> [acc EXCEPT !.completions = @ \ {u}]
    [] table = "notifications" -> [acc EXCEPT !.notifications = @ \ {u}]
    [] table = "roles" -> [acc EXCEPT !.roles = {r \in @ : r[1] # u}]
    [] table = "profiles" -> [acc EXCEPT !.profiles = @ \ {u}]

\* the deletes of a user's rows, in the order the handler issues them
DeleteOrder == <<"assignments", "completions", "notifications", "roles", "profiles">>

\* return new Response(JSON.stringify({ error }), { status })
MuRespond(m, status, error) ==
  mu' = [m EXCEPT !.pc = "done", !.status = status, !.error = error]

\* the handler up to its first await
MuServe(req) ==
  /\ mu.pc = "idle"
  /\ LET m == [IdleMu EXCEPT !.req = req] IN
     IF req.method = "OPTIONS" THEN MuRespond(m, 200, "")
     ELSE IF ~ServiceRoleKey THEN MuRespond(m, 500, "Service role key not configured")
     ELSE IF req.auth = "none" THEN MuRespond(m, 401, "Authorization header required")
     ELSE mu' = [m EXCEPT !.pc = "getUser"]
  /\ UNCHANGED <<who, checklist_items, task_completions, notifications, checklist,
                 allCompletedNotified, completing, feed, handler, nToggles,
                 listFetch, listRow, nextTask, rt, createVars, epVars, hookVars, accounts, pageVars>>

\* the Response has been returned: the invocation is over
MuReturn ==
  /\ mu.pc = "done"
  /\ mu' = IdleMu
  /\ UNCHANGED <<who, checklist_items, task_completions, notifications, checklist,
                 allCompletedNotified, completing, feed, handler, nToggles,
                 listFetch, listRow, nextTask, rt, createVars, epVars, hookVars, accounts, pageVars>>

\* supabaseUser.auth.getUser()
MuGetUser ==
  /\ mu.pc = "getUser"
  /\ IF mu.req.auth \in accounts.auth
     THEN mu' = [mu EXCEPT !.pc = "role", !.callingUser = mu.req.auth]
     ELSE MuRespond(mu, 401, "Invalid authentication")
  /\ UNCHANGED <<who, checklist_items, task_completions, notifications, checklist,
                 allCompletedNotified, completing, feed, handler, nToggles,
                 listFetch, listRow, nextTask, rt, createVars, epVars, hookVars, accounts, pageVars>>

\* a role check that lets every signed-in user through
MuCheckRoleAnyUser(roleError) ==
  /\ mu.pc = "role"
  /\ IF roleError
     THEN MuRespond(mu, 403, "Admin access required")
     ELSE mu' = [mu EXCEPT !.pc = "body"]
  /\ UNCHANGED <<who, checklist_items, task_completions, notifications, checklist,
                 allCompletedNotified, completing, feed, handler, nToggles,
                 listFetch, listRow, nextTask, rt, createVars, epVars, hookVars, accounts, pageVars>>

\* select role from user_roles where user_id = callingUser.id, maybeSingle():
\* no row gives no data, more than one row gives an error
MuCheckRole(roleError) ==
  /\ mu.pc = "role"
  /\ LET rows == {r \in Roles : <<mu.callingUser, r>> \in accounts.roles} IN
     IF roleError \/ Cardinality(rows) > 1 \/ rows # {"admin"}
     THEN MuRespond(mu, 403, "Admin access required")
     ELSE mu' = [mu EXCEPT !.pc = "body"]
  /\ UNCHANGED <<who, checklist_items, task_completions, notifications, checklist,
                 allCompletedNotified, completing, feed, handler, nToggles,
                 listFetch, listRow, nextTask, rt, createVars, epVars, hookVars, accounts, pageVars>>

\* req.json() and the checks of the action's fields, without the check
\* against the caller's own id
MuReadBodyNoSelfCheck ==
  /\ mu.pc = "body"
  /\ LET body == mu.req.body IN
     IF body.action = "malformed" THEN MuRespond(mu, 500, "Internal server error")
     ELSE IF body.action = "create"
     THEN IF ~body.complete
          THEN MuRespond(mu, 400, "Email, password, and full name are required")
          ELSE mu' = [mu EXCEPT !.pc = "createUser"]
     ELSE IF body.action = "delete"
     THEN IF body.userId = "none" THEN MuRespond(mu, 400, "User ID is required")
          ELSE mu' = [mu EXCEPT !.pc = "deleteRows", !.step = 1]
     ELSE MuRespond(mu, 400, "Invalid action")
  /\ UNCHANGED <<who, checklist_items, task_completions, notifications, checklist,
                 allCompletedNotified, completing, feed, handler, nToggles,
                 listFetch, listRow, nextTask, rt, createVars, epVars, hookVars, accounts, pageVars>>

\* req.json() (it throws on a body that is not JSON) and the checks of the
\* action's fields
MuReadBody ==
  /\ mu.pc = "body"
  /\ LET body == mu.req.body IN
     IF body.action = "malformed" THEN MuRespond(mu, 500, "Internal server error")
     ELSE IF body.action = "create"
     THEN IF ~body.complete
          THEN MuRespond(mu, 400, "Email, password, and full name are required")
          ELSE mu' = [mu EXCEPT !.pc = "createUser"]
     ELSE IF body.action = "delete"
     THEN IF body.userId = "none" THEN MuRespond(mu, 400, "User ID is required")
          ELSE IF body.userId = mu.callingUser
          THEN MuRespond(mu, 400, "Cannot delete your own account")
          ELSE mu' = [mu EXCEPT !.pc = "deleteRows", !.step = 1]
     ELSE MuRespond(mu, 400, "Invalid action")
  /\ UNCHANGED <<who, checklist_items, task_completions, notifications, checklist,
                 allCompletedNotified, completing, feed, handler, nToggles,
                 listFetch, listRow, nextTask, rt, createVars, epVars, hookVars, accounts, pageVars>>

\* auth.admin.createUser: refused when the email is registered already
MuCreateUser(fail) ==
  /\ mu.pc = "createUser"
  /\ IF fail \/ NewUser \in accounts.auth
     THEN MuRespond(mu, 400, "createError.message") /\ UNCHANGED accounts
     ELSE /\ accounts' = [accounts EXCEPT !.auth = @ \cup {NewUser}]
          /\ mu' = [mu EXCEPT !.pc = "profile"]
  /\ UNCHANGED <<who, checklist_items, task_completions, notifications, checklist,
                 allCompletedNotified, completing, feed, handler, nToggles,
                 listFetch, listRow, nextTask, rt, createVars, epVars, hookVars, pageVars>>

\* insert into profiles; on error the identity is deleted again (the result
\* of that delete is not looked at)
MuInsertProfile(fail, undone) ==
  /\ mu.pc = "profile"
  /\ IF fail
     THEN /\ accounts' = IF undone THEN DeleteAuthUser(accounts, NewUser) ELSE accounts
          /\ MuRespond(mu, 500, "Failed to create profile")
     ELSE /\ accounts' = [accounts EXCEPT !.profiles = @ \cup {NewUser}]
          /\ mu' = [mu EXCEPT !.pc = "roleInsert"]
  /\ UNCHANGED <<who, checklist_items, task_completions, notifications, checklist,
                 allCompletedNotified, completing, feed, handler, nToggles,
                 listFetch, listRow, nextTask, rt, createVars, epVars, hookVars, pageVars>>

\* insert into user_roles; on error the profile and the identity are deleted
\* again (the results of those deletes are not looked at)
MuInsertRole(fail, undoneProfile, undoneUser) ==
  /\ mu.pc = "roleInsert"
  /\ LET role == IF mu.req.body.role = "none" THEN "employee" ELSE mu.req.body.role
         a1 == IF undoneProfile THEN DeleteRows(accounts, "profiles", NewUser) ELSE accounts
         a2 == IF undoneUser THEN DeleteAuthUser(a1, NewUser) ELSE a1
     IN IF fail
        THEN /\ accounts' = a2
             /\ MuRespond(mu, 500, "Failed to assign role")
        ELSE /\ accounts' = [accounts EXCEPT !.roles = @ \cup {<<NewUser, role>>}]
             /\ MuRespond(mu, 200, "")
  /\ UNCHANGED <<who, checklist_items, task_completions, notifications, checklist,
                 allCompletedNotified, completing, feed, handler, nToggles,
                 listFetch, listRow, nextTask, rt, createVars, epVars, hookVars, pageVars>>

\* one of the five deletes of the user's rows (its result is not looked at)
MuDeleteRows(fail) ==
  /\ mu.pc = "deleteRows"
  /\ accounts' = IF fail THEN accounts
                 ELSE DeleteRows(accounts, DeleteOrder[mu.step], mu.req.body.userId)
  /\ mu' = IF mu.step < Len(DeleteOrder) THEN [mu EXCEPT !.step = @ + 1]
           ELSE [mu EXCEPT !.pc = "deleteUser"]
  /\ UNCHANGED <<who, checklist_items, task_completions, notifications, checklist,
                 allCompletedNotified, completing, feed, handler, nToggles,
                 listFetch, listRow, nextTask, rt, createVars, epVars, hookVars, pageVars>>

\* auth.admin.deleteUser(userId)
MuDeleteUser(fail) ==
  /\ mu.pc = "deleteUser"
  /\ IF fail \/ mu.req.body.userId \notin accounts.auth
     THEN MuRespond(mu, 500, "deleteError.message") /\ UNCHANGED accounts
     ELSE /\ accounts' = DeleteAuthUser(accounts, mu.req.body.userId)
          /\ MuRespond(mu, 200, "")
  /\ UNCHANGED <<who, checklist_items, task_completions, notifications, checklist,
                 allCompletedNotified, completing, feed, handler, nToggles,
                 listFetch, listRow, nextTask, rt, createVars, epVars, hookVars, pageVars>>

\* option?.(payload)
Call(supplied, name) == IF name \in supplied THEN <<name>> ELSE <<>>

\* a switch whose cases fall through
handlePayloadFallThrough(supplied, eventType) ==
  Call(supplied, "onChange") \o
    (CASE eventType = "INSERT" ->
            Call(supplied, "onInsert") \o Call(supplied, "onUpdate") \o Call(supplied, "onDelete")
       [] eventType = "UPDATE" -> Call(supplied, "onUpdate") \o Call(supplied, "onDelete")
       [] eventType = "DELETE" -> Call(supplied, "onDelete")
       [] OTHER -> <<>>)

\* the handlers handlePayload invokes for a payload, in order
handlePayload(supplied, eventType) ==
  Call(supplied, "onChange") \o
    (CASE eventType = "INSERT" -> Call(supplied, "onInsert")
       [] eventType = "UPDATE" -> Call(supplied, "onUpdate")
       [] eventType = "DELETE" -> Call(supplied, "onDelete")
       [] OTHER -> <<>>)

\* an effect cleanup that removes nothing
HookCleanupNothing(chs) == chs

\* the effect's cleanup: supabase.removeChannel(channelRef.current)
HookCleanup(chs) ==
  IF hook.channelRef # 0 THEN {c \in chs : c.id # hook.channelRef} ELSE chs

\* the effect: supabase.channel(...).on('postgres_changes', ..., handlePayload)
\* .subscribe(), channelRef.current = channel
HookEffect(chs, o) == chs \cup {[id |-> nChannels + 1, options |-> o]}

\* first render and its effect
HookMount(o) ==
  /\ hook.stage = "initial"
  /\ nChannels < MaxChannels
  /\ openChannels' = HookEffect(openChannels, o)
  /\ nChannels' = nChannels + 1
  /\ hook' = [stage |-> "mounted", options |-> o, channelRef |-> nChannels + 1]
  /\ UNCHANGED <<who, checklist_items, task_completions, notifications, checklist,
                 allCompletedNotified, completing, feed, handler, nToggles,
                 listFetch, listRow, nextTask, rt, createVars, epVars, muVars, delivered, pageVars>>

\* a render with a changed dependency (table, schema, event, filter or
\* handlePayload): the cleanup of the previous effect, then the effect
HookRerender(o) ==
  /\ hook.stage = "mounted"
  /\ o # hook.options
  /\ nChannels < MaxChannels
  /\ openChannels' = HookEffect(HookCleanup(openChannels), o)
  /\ nChannels' = nChannels + 1
  /\ hook' = [hook EXCEPT !.options = o, !.channelRef = nChannels + 1]
  /\ UNCHANGED <<who, checklist_items, task_completions, notifications, checklist,
                 allCompletedNotified, completing, feed, handler, nToggles,
                 listFetch, listRow, nextTask, rt, createVars, epVars, muVars, delivered, pageVars>>

\* the view unmounts: the cleanup of the last effect
HookUnmount ==
  /\ hook.stage = "mounted"
  /\ openChannels' = HookCleanup(openChannels)
  /\ hook' = [hook EXCEPT !.stage = "unmounted"]
  /\ UNCHANGED <<who, checklist_items, task_completions, notifications, checklist,
                 allCompletedNotified, completing, feed, handler, nToggles,
                 listFetch, listRow, nextTask, rt, createVars, epVars, muVars,
                 nChannels, delivered, pageVars>>

\* a change event that matches the subscription of an open channel arrives
\* and the channel calls the handlePayload it was subscribed with
HookDeliver(c, eventType) ==
  /\ c \in openChannels
  /\ c.options.event \in {"*", eventType}
  /\ delivered' = [eventType |-> eventType, supplied |-> c.options.supplied,
                   calls |-> handlePayload(c.options.supplied, eventType)]
  /\ UNCHANGED <<who, checklist_items, task_completions, notifications, checklist,
                 allCompletedNotified, completing, feed, handler, nToggles,
                 listFetch, listRow, nextTask, rt, createVars, epVars, muVars,
                 hook, openChannels, nChannels, pageVars>>

\* ------------------------------------------------------ Notifications page
NotificationIds == {"n1", "n2", "n3"}

\* notifications policies: SELECT and UPDATE with USING (user_id = auth.uid())
NotificationOwn(caller, row) == row.user_id = caller
\* there is no policy FOR DELETE on notifications: with row-level security
\* enabled a DELETE statement of an authenticated user matches no row
NotificationDeletable(caller, row) == FALSE

\* update notifications set is_read = true where id in ids, under the policy
DbMarkRead(rows, caller, ids) ==
  [id \in DOMAIN rows |->
     IF id \in ids /\ NotificationOwn(caller, rows[id])
     THEN [rows[id] EXCEPT !.is_read = TRUE] ELSE rows[id]]

\* delete from notifications where id in ids, under the policy
DbDeleteNotifications(rows, caller, ids) ==
  [id \in {i \in DOMAIN rows : ~(i \in ids /\ NotificationDeletable(caller, rows[i]))} |->
     rows[id]]

IdlePage == [list |-> [i \in {} |-> FALSE], toast |-> "none", target |-> "none"]

\* fetchNotifications: the caller's rows, as the SELECT policy shows them
fetchNotifications ==
  /\ notificationsPage' =
       [notificationsPage EXCEPT
          !.list = [id \in {i \in DOMAIN notification_rows :
                              NotificationOwn(who, notification_rows[i])} |->
                      notification_rows[id].is_read]]
  /\ UNCHANGED <<who, checklist_items, task_completions, notifications, checklist,
                 allCompletedNotified, completing, feed, handler, nToggles,
                 listFetch, listRow, nextTask, rt, createVars, epVars, muVars, hookVars,
                 notification_rows>>

\* markAsRead(notificationId) on a notification of the list
markAsRead(id, netfail) ==
  /\ id \in DOMAIN notificationsPage.list
  /\ IF netfail
     THEN /\ notificationsPage' = [notificationsPage EXCEPT
                                     !.toast = "Failed to update notification", !.target = id]
          /\ UNCHANGED notification_rows
     ELSE /\ notification_rows' = DbMarkRead(notification_rows, who, {id})
          /\ notificationsPage' = [notificationsPage EXCEPT
                                     !.list[id] = TRUE, !.toast = "none", !.target = id]
  /\ UNCHANGED <<who, checklist_items, task_completions, notifications, checklist,
                 allCompletedNotified, completing, feed, handler, nToggles,
                 listFetch, listRow, nextTask, rt, createVars, epVars, muVars, hookVars>>

\* markAllAsRead: update ... where user_id = user.id and is_read = false
markAllAsRead(netfail) ==
  /\ IF netfail
     THEN /\ notificationsPage' = [notificationsPage EXCEPT
                                     !.toast = "Failed to mark all as read", !.target = "none"]
          /\ UNCHANGED notification_rows
     ELSE /\ notification_rows' =
               DbMarkRead(notification_rows, who,
                          {i \in DOMAIN notification_rows :
                             /\ notification_rows[i].user_id = who
                             /\ ~notification_rows[i].is_read})
          /\ notificationsPage' =
               [list |-> [id \in DOMAIN notificationsPage.list |-> TRUE],
                toast |-> "All notifications marked as read", target |-> "none"]
  /\ UNCHANGED <<who, checklist_items, task_completions, notifications, checklist,
                 allCompletedNotified, completing, feed, handler, nToggles,
                 listFetch, listRow, nextTask, rt, createVars, epVars, muVars, hookVars>>

\* deleteNotification(notificationId) on a notification of the list
deleteNotification(id, netfail) ==
  /\ id \in DOMAIN notificationsPage.list
  /\ IF netfail
     THEN /\ notificationsPage' = [notificationsPage EXCEPT
                                     !.toast = "Failed to delete notification", !.target = id]
          /\ UNCHANGED notification_rows
     ELSE /\ notification_rows' = DbDeleteNotifications(notification_rows, who, {id})
          /\ notificationsPage' =
               [list |-> [i \in DOMAIN notificationsPage.list \ {id} |->
                            notificationsPage.list[i]],
                toast |-> "Notification deleted", target |-> id]
  /\ UNCHANGED <<who, checklist_items, task_completions, notifications, checklist,
                 allCompletedNotified, completing, feed, handler, nToggles,
                 listFetch, listRow, nextTask, rt, createVars, epVars, muVars, hookVars>>

\* an admin deletes the checklist: the notifications that reference it go
\* with the checklists row (related_checklist_id ... ON DELETE CASCADE)
ChecklistDeleted ==
  /\ checklists = {TheChecklist}
  /\ checklists' = {}
  /\ notification_rows' =
       [id \in {i \in DOMAIN notification_rows : ~notification_rows[i].related} |->
          notification_rows[id]]
  /\ UNCHANGED <<who, checklist_items, task_completions, notifications, checklist,
                 allCompletedNotified, completing, feed, handler, nToggles,
                 listFetch, listRow, nextTask, rt, employee_assignments,
                 notifications_assigned, create, epVars, muVars, hookVars,
                 notificationsPage>>

\* Two sessions of `who`, each with at most one toggle in flight at a time,
\* while an admin adds tasks to the checklist.
Next ==
  \/ \E t \in Tasks : AdminAddTask(t)
  \/ \E v \in Views : fetchChecklist(v)
  \/ \E t \in Tasks : StartToggle("h1", "v1", t)
  \/ \E t \in Tasks : StartToggle("h2", "v2", t)
  \/ \E h \in Handlers, netfail \in BOOLEAN : WriteCompletion(h, netfail)
  \/ \E h \in Handlers : Respond(h)
  \/ \E h \in Handlers : SelectAdmins(h)
  \/ \E h \in Handlers, fail \in BOOLEAN : InsertNotifications(h, fail)
  \/ \E h \in Handlers, ok \in BOOLEAN : Dispatch(h, ok)
  \/ \E h \in Handlers : Finally(h)

Spec == Init /\ [][Next]_vars

\* One session of the employee and a list page of the same user, while an
\* admin adds and removes tasks.  No admin role is visible to the employee, so
\* the notify pass of this session ends after its read of user_roles.
InitPages == Init /\ who = "e1"

NextPages ==
  \/ \E t \in Tasks : AdminAddTask(t)
  \/ \E t \in Tasks : AdminRemoveTask(t)
  \/ fetchChecklist("v1")
  \/ \E t \in Tasks : StartToggle("h1", "v1", t)
  \/ \E netfail \in BOOLEAN : WriteCompletion("h1", netfail)
  \/ Respond("h1")
  \/ SelectAdmins("h1")
  \/ Finally("h1")
  \/ ListFetchItems
  \/ ListFetchCount

SpecPages == InitPages /\ [][NextPages]_vars

\* An admin (or, against the page's guard, an employee) submits the
\* CreateChecklist form for a department with some employees assigned; the
\* submitter then opens the checklist and toggles its tasks in one session.
AssignmentRows == {<<"e1", "d1">>, <<"e2", "d1">>, <<"e3", "d1">>, <<"e3", "d2">>}
CreateModes == {"manual", "excel", "image"}

InitCreate ==
  /\ who \in {"e1", "a1"}
  /\ checklist_items = {}
  /\ task_completions = [t \in Tasks |-> 0]
  /\ notifications = ZeroUsers
  /\ checklist = [v \in Views |-> EmptyItems]
  /\ allCompletedNotified = [v \in Views |-> FALSE]
  /\ completing = [v \in Views |-> NoTask]
  /\ feed = [v \in Views |-> FALSE]
  /\ handler = [h \in Handlers |-> IdleHandler]
  /\ nToggles = 0
  /\ listFetch = NoFetch
  /\ listRow = [total_items |-> 0, completed_items |-> 0]
  /\ nextTask = 1
  /\ rt = RtOff
  /\ checklists = {}
  /\ employee_assignments \in SUBSET AssignmentRows
  /\ notifications_assigned = ZeroUsers
  /\ create = IdleCreate
  /\ ep = IdleEp
  /\ mu = IdleMu
  /\ accounts = InitAccounts
  /\ HookIdle
  /\ PageIdle

NextCreate ==
  \/ \E d \in Departments, n \in 0..MaxTasks, mode \in CreateModes, img \in BOOLEAN :
       CreateSubmit(d, n, mode, img)
  \/ \E fail \in BOOLEAN : CreateUpload(fail)
  \/ \E netfail \in BOOLEAN : CreateInsertChecklist(netfail)
  \/ \E fail \in BOOLEAN : CreateInsertItems(fail)
  \/ \E fail \in BOOLEAN : CreateSelectAssignments(fail)
  \/ \E fail \in BOOLEAN : CreateSelectProfiles(fail)
  \/ \E ok \in BOOLEAN : CreateDispatch(ok)
  \/ \E netfail \in BOOLEAN : CreateInsertNotifications(netfail)
  \/ CreateFinally
  \/ MountDetail("v1")
  \/ fetchChecklist("v1")
  \/ \E t \in Tasks : StartToggle("h1", "v1", t)
  \/ \E netfail \in BOOLEAN : WriteCompletion("h1", netfail)
  \/ Respond("h1")
  \/ SelectAdmins("h1")
  \/ \E fail \in BOOLEAN : InsertNotifications("h1", fail)
  \/ \E ok \in BOOLEAN : Dispatch("h1", ok)
  \/ Finally("h1")

SpecCreate == InitCreate /\ [][NextCreate]_vars

\* One request to one of the three handlers of send-notification.
InitEndpoint ==
  /\ who = "a1"
  /\ checklist_items = {}
  /\ task_completions = [t \in Tasks |-> 0]
  /\ notifications = ZeroUsers
  /\ checklist = [v \in Views |-> EmptyItems]
  /\ allCompletedNotified = [v \in Views |-> FALSE]
  /\ completing = [v \in Views |-> NoTask]
  /\ feed = [v \in Views |-> FALSE]
  /\ handler = [h \in Handlers |-> IdleHandler]
  /\ nToggles = 0
  /\ listFetch = NoFetch
  /\ listRow = [total_items |-> 0, completed_items |-> 0]
  /\ nextTask = 1
  /\ rt = RtOff
  /\ checklists = {TheChecklist}
  /\ employee_assignments = {}
  /\ notifications_assigned = ZeroUsers
  /\ create = IdleCreate
  /\ \/ \E req \in MessageRequests, variant \in {"title", "channels"} :
          ep = [variant |-> variant, req |-> req, env |-> NoEnv, resp |-> NoResp]
     \/ \E req \in TypedRequests :
          ep = [variant |-> "typed", req |-> req, env |-> NoEnv, resp |-> NoResp]
  /\ mu = IdleMu
  /\ accounts = InitAccounts
  /\ HookIdle
  /\ PageIdle

NextEndpoint ==
  \/ \E env \in SingleCallEnvs : ServeTitle(env)
  \/ \E env \in ChannelEnvs : ServeChannels(env)
  \/ \E env \in SingleCallEnvs : ServeTyped(env)

SpecEndpoint == InitEndpoint /\ [][NextEndpoint]_vars

\* Requests to manage-users, one at a time, on a store with one admin and
\* one employee.
InitUsers ==
  /\ who = "a1"
  /\ checklist_items = {}
  /\ task_completions = [t \in Tasks |-> 0]
  /\ notifications = ZeroUsers
  /\ checklist = [v \in Views |-> EmptyItems]
  /\ allCompletedNotified = [v \in Views |-> FALSE]
  /\ completing = [v \in Views |-> NoTask]
  /\ feed = [v \in Views |-> FALSE]
  /\ handler = [h \in Handlers |-> IdleHandler]
  /\ nToggles = 0
  /\ listFetch = NoFetch
  /\ listRow = [total_items |-> 0, completed_items |-> 0]
  /\ nextTask = 1
  /\ rt = RtOff
  /\ checklists = {TheChecklist}
  /\ employee_assignments = {}
  /\ notifications_assigned = ZeroUsers
  /\ create = IdleCreate
  /\ ep = IdleEp
  /\ mu = IdleMu
  /\ accounts = InitAccounts
  /\ HookIdle
  /\ PageIdle

NextUsers ==
  \/ \E req \in MuRequests : MuServe(req)
  \/ MuGetUser
  \/ \E roleError \in BOOLEAN : MuCheckRole(roleError)
  \/ MuReadBody
  \/ \E fail \in BOOLEAN : MuCreateUser(fail)
  \/ \E fail \in BOOLEAN, undone \in BOOLEAN : MuInsertProfile(fail, undone)
  \/ \E fail \in BOOLEAN, undoneProfile \in BOOLEAN, undoneUser \in BOOLEAN :
       MuInsertRole(fail, undoneProfile, undoneUser)
  \/ \E fail \in BOOLEAN : MuDeleteRows(fail)
  \/ \E fail \in BOOLEAN : MuDeleteUser(fail)
  \/ MuReturn

SpecUsers == InitUsers /\ [][NextUsers]_vars

\* One useRealtime instance from its mount to its unmount, with change
\* events arriving on its channels.
InitRealtime == InitPages

NextRealtime ==
  \/ \E o \in HookOptions : HookMount(o)
  \/ \E o \in HookOptions : HookRerender(o)
  \/ HookUnmount
  \/ \E c \in openChannels, eventType \in EventKinds : HookDeliver(c, eventType)

SpecRealtime == InitRealtime /\ [][NextRealtime]_vars

\* One ChecklistDetail session on a checklist with a single task: the view
\* has loaded the task, nobody else changes the checklist or its completions.
InitSession ==
  /\ who \in {"e1", "a1"}
  /\ checklist_items = {1}
  /\ task_completions = [t \in Tasks |-> 0]
  /\ notifications = ZeroUsers
  /\ checklist = [v \in Views |-> IF v = "v1" THEN [i \in {1} |-> FALSE] ELSE EmptyItems]
  /\ allCompletedNotified = [v \in Views |-> FALSE]
  /\ completing = [v \in Views |-> NoTask]
  /\ feed = [v \in Views |-> FALSE]
  /\ handler = [h \in Handlers |-> IdleHandler]
  /\ nToggles = 0
  /\ listFetch = NoFetch
  /\ listRow = [total_items |-> 0, completed_items |-> 0]
  /\ nextTask = 2
  /\ rt = RtOff
  /\ checklists = {TheChecklist}
  /\ employee_assignments = {}
  /\ notifications_assigned = ZeroUsers
  /\ create = IdleCreate
  /\ ep = IdleEp
  /\ mu = IdleMu
  /\ accounts = InitAccounts
  /\ HookIdle
  /\ PageIdle

NextSession ==
  \/ StartToggle("h1", "v1", 1)
  \/ \E netfail \in BOOLEAN : WriteCompletion("h1", netfail)
  \/ Respond("h1")
  \/ SelectAdmins("h1")
  \/ \E fail \in BOOLEAN : InsertNotifications("h1", fail)
  \/ \E ok \in BOOLEAN : Dispatch("h1", ok)
  \/ Finally("h1")

SpecSession == InitSession /\ [][NextSession]_vars

\* One ChecklistDetail view that has loaded every task of the checklist; the
\* user may click a second checkbox while the write of the first is in
\* flight (only the item shown as in flight has no checkbox).
InitSameView ==
  /\ who \in {"e1", "a1"}
  /\ checklist_items = Tasks
  /\ task_completions = [t \in Tasks |-> 0]
  /\ notifications = ZeroUsers
  /\ checklist = [v \in Views |-> IF v = "v1" THEN [i \in Tasks |-> FALSE] ELSE EmptyItems]
  /\ allCompletedNotified = [v \in Views |-> FALSE]
  /\ completing = [v \in Views |-> NoTask]
  /\ feed = [v \in Views |-> FALSE]
  /\ handler = [h \in Handlers |-> IdleHandler]
  /\ nToggles = 0
  /\ listFetch = NoFetch
  /\ listRow = [total_items |-> 0, completed_items |-> 0]
  /\ nextTask = MaxTasks + 1
  /\ rt = RtOff
  /\ checklists = {TheChecklist}
  /\ employee_assignments = {}
  /\ notifications_assigned = ZeroUsers
  /\ create = IdleCreate
  /\ ep = IdleEp
  /\ mu = IdleMu
  /\ accounts = InitAccounts
  /\ HookIdle
  /\ PageIdle

NextSameView ==
  \/ \E h \in Handlers, t \in Tasks : StartToggle(h, "v1", t)
  \/ \E h \in Handlers, netfail \in BOOLEAN : WriteCompletion(h, netfail)
  \/ \E h \in Handlers : Respond(h)
  \/ \E h \in Handlers : SelectAdmins(h)
  \/ \E h \in Handlers, fail \in BOOLEAN : InsertNotifications(h, fail)
  \/ \E h \in Handlers, ok \in BOOLEAN : Dispatch(h, ok)
  \/ \E h \in Handlers : Finally(h)

SpecSameView == InitSameView /\ [][NextSameView]_vars

\* The Notifications page of one user on a store with notifications of two
\* users; the page starts with an empty list and fetches.
InitNotifications ==
  /\ who \in {"a1", "a2"}
  /\ checklist_items = {}
  /\ task_completions = [t \in Tasks |-> 0]
  /\ notifications = ZeroUsers
  /\ checklist = [v \in Views |-> EmptyItems]
  /\ allCompletedNotified = [v \in Views |-> FALSE]
  /\ completing = [v \in Views |-> NoTask]
  /\ feed = [v \in Views |-> FALSE]
  /\ handler = [h \in Handlers |-> IdleHandler]
  /\ nToggles = 0
  /\ listFetch = NoFetch
  /\ listRow = [total_items |-> 0, completed_items |-> 0]
  /\ nextTask = 1
  /\ rt = RtOff
  /\ checklists = {TheChecklist}
  /\ employee_assignments = {}
  /\ notifications_assigned = ZeroUsers
  /\ create = IdleCreate
  /\ ep = IdleEp
  /\ mu = IdleMu
  /\ accounts = InitAccounts
  /\ HookIdle
  /\ \E r1 \in BOOLEAN, r3 \in BOOLEAN :
       notification_rows =
         [id \in NotificationIds |->
            [user_id |-> IF id = "n3" THEN "a2" ELSE "a1",
             title |-> id, type |-> "all_tasks_complete",
             is_read |-> IF id = "n1" THEN r1 ELSE IF id = "n3" THEN r3 ELSE FALSE,
             related |-> id # "n2"]]
  /\ notificationsPage = IdlePage

NextNotifications ==
  \/ fetchNotifications
  \/ \E id \in NotificationIds, netfail \in BOOLEAN : markAsRead(id, netfail)
  \/ \E netfail \in BOOLEAN : markAllAsRead(netfail)
  \/ \E id \in NotificationIds, netfail \in BOOLEAN : deleteNotification(id, netfail)
  \/ ChecklistDeleted

SpecNotifications == InitNotifications /\ [][NextNotifications]_vars

\* ------------------------------------------------------------- the claims
\* the step in which handler h takes the write's response
Responds(h) == handler[h].pc = "resp" /\ handler'[h].pc # "resp"
\* the step in which the store executes the write of handler h
Writes(h) == handler[h].pc = "write" /\ handler'[h].pc = "resp"
AdminUsers == {u \in Users : user_roles[u] = "admin"}

\* C1: in one view, a toggle that takes the view's fullness from INCOMPLETE to
\* COMPLETE starts the notify pass (once: the pass is one run of the handler);
\* a toggle that leaves the fullness INCOMPLETE, or that finds it COMPLETE and
\* already notified, does not start it.
C1_PassOncePerTransition ==
  [][\A h \in Handlers :
       (Responds(h) /\ handler[h].res = "ok") =>
         LET v == handler[h].view
             starts == handler'[h].pc = "notify" /\ handler[h].pc # "notify"
         IN /\ (~DetailIsComplete(checklist[v]) /\ DetailIsComplete(checklist'[v])) => starts
            /\ ~DetailIsComplete(checklist'[v]) => ~starts
            /\ (DetailIsComplete(checklist[v]) /\ allCompletedNotified[v]) => ~starts]_vars

\* C2: the already-notified flag of a view is false whenever the view's
\* fullness is INCOMPLETE, whatever made it INCOMPLETE.
C2_FlagFalseWhenIncomplete ==
  \A v \in Views : ~DetailIsComplete(checklist[v]) => ~allCompletedNotified[v]

\* C3: a toggle whose write is not lost decides by the store: it deletes the
\* row when one exists and returns completed=false, otherwise inserts one and
\* returns completed=true, and the view's flag then equals the row's existence.
C3_ToggleDecidesByStore ==
  [][\A h \in Handlers :
       LET t == handler[h].item IN
       /\ (Writes(h) /\ handler'[h].res # "neterr" /\ t \in checklist_items) =>
            IF task_completions[t] > 0
            THEN task_completions'[t] = 0 /\ handler'[h].res = "ok" /\ handler[h].completed
            ELSE task_completions'[t] = 1 /\ handler'[h].res = "ok" /\ ~handler[h].completed
       /\ (Responds(h) /\ handler[h].res # "neterr" /\ t \in checklist_items) =>
            checklist'[handler[h].view][t] = (task_completions'[t] > 0)]_vars

\* C4: from a state without a row for the task, two successive toggles of it
\* yield completed=true, then completed=false, and leave no row; a toggle
\* changes neither the task set nor the rows of other tasks.
C4_ToggleRoundTrip ==
  /\ [](rt.stage = "done" => rt.r1 = "true" /\ rt.r2 = "false" /\ rt.left = 0)
  /\ [][\A h \in Handlers :
          Writes(h) =>
            /\ checklist_items' = checklist_items
            /\ \A t \in Tasks \ {handler[h].item} :
                 task_completions'[t] = task_completions[t]]_vars

\* C5: the store never holds two rows for one (task, user, checklist) triple,
\* and an insert that meets an existing row is rejected and adds nothing.
C5_UniqueCompletion ==
  /\ [](\A t \in Tasks : task_completions[t] <= 1)
  /\ [][\A h \in Handlers :
          (Writes(h) /\ ~handler[h].completed /\ handler'[h].res # "neterr"
             /\ task_completions[handler[h].item] > 0) =>
            (handler'[h].res = "conflict" /\ task_completions' = task_completions)]_vars

\* a duplicate insert has just been rejected
C5_Witness ==
  \E h \in Handlers :
    /\ handler[h].pc = "resp"
    /\ handler[h].res = "conflict"
    /\ task_completions[handler[h].item] = 1

\* C6: the fullness a toggle uses for its notify decision is true exactly when
\* the rows persisted for (checklist, user) are as many as the persisted tasks
\* and there is at least one task.
C6_FullnessFromStore ==
  [][\A h \in Handlers :
       (Responds(h) /\ handler[h].res = "ok") =>
         LET updatedItems == UpdatedItems(handler[h].snap, handler[h].item) IN
         (AllCompleted(updatedItems) /\ Cardinality(DOMAIN updatedItems) > 0) <=> StoreFull]_vars

\* C7: a checklist held with zero tasks is not complete for the notify
\* decision, the detail badge or the dashboard badge, and the Checklists page
\* puts it in Pending and not in Completed, whatever its completion count.
C7_ZeroTasksNeverComplete ==
  /\ listRow.total_items = 0 =>
       /\ ~DashboardIsComplete(listRow)
       /\ ~ChecklistsCompleted(listRow)
       /\ ChecklistsPending(listRow)
  /\ \A v \in Views :
       DOMAIN checklist[v] = {} =>
         /\ ~DetailIsComplete(checklist[v])
         /\ ~NotifyDecision(checklist[v], FALSE)
  /\ \A h \in Handlers : handler[h].fired => DOMAIN handler[h].snap # {}

\* a list page holds the checklist with no task and a completion count above 0
C7_Witness == listRow.total_items = 0 /\ listRow.completed_items > 0

\* C8: the pass of an employee's toggle that completes the checklist persists
\* exactly one record for each admin and none for anyone else; a toggle that
\* does not start the pass persists none.
C8_OneRecordPerAdmin ==
  \A h \in Handlers :
    (handler[h].pc = "finally" /\ user_roles[who] = "employee") =>
      IF handler[h].fired
      THEN \A u \in Users : handler[h].ins[u] = IF u \in AdminUsers THEN 1 ELSE 0
      ELSE handler[h].ins = ZeroUsers

\* C9: a pass whose batch insert did not fail attempts one dispatch for each
\* admin with a phone number and none for an admin without, who still gets the
\* in-app record.
C9_DispatchPerAdminWithPhone ==
  \A h \in Handlers :
    (handler[h].pc = "finally" /\ handler[h].fired /\ handler[h].insert # "failed") =>
      \A a \in AdminUsers :
        /\ handler[h].att[a] = IF profiles[a].phone THEN 1 ELSE 0
        /\ ~profiles[a].phone => handler[h].ins[a] = 1

\* C10: a pass attempts no dispatch before its batch insert has returned, and
\* the records of an insert that succeeded exist whatever the dispatches did.
C10_InAppBeforeDispatch ==
  \A h \in Handlers :
    /\ (handler[h].pc = "dispatch" \/ \E u \in Users : handler[h].att[u] > 0) =>
         handler[h].insert \in {"ok", "failed"}
    /\ handler[h].insert = "ok" =>
         \A a \in handler[h].admins : notifications[a] >= 1 /\ handler[h].ins[a] = 1

\* a pass ended with its records inserted and its only dispatch failed
C10_Witness ==
  \E h \in Handlers :
    /\ handler[h].pc = "finally"
    /\ handler[h].insert = "ok"
    /\ handler[h].att["a1"] = 1
    /\ handler[h].failed = HasPhone(handler[h].todo \cup handler[h].failed)
    /\ handler[h].failed # {}
    /\ notifications["a2"] >= 1

\* C13: when the batch insert of the admin records fails, the pass is reported
\* as failed, and the step rolls back neither the completion row nor the
\* view's flag of the toggled task.
C13_NotifyFailureReported ==
  [][\A h \in Handlers :
       (handler[h].pc = "insert" /\ handler'[h].insert = "failed") =>
         /\ handler'[h].reported
         /\ task_completions' = task_completions
         /\ checklist' = checklist]_vars

\* C14: a toggle whose write fails reports the failure and does nothing else:
\* the rows and the view are as before, no notify decision is taken, no record
\* is inserted, no dispatch is attempted, and the finally block clears the
\* in-flight indicator.
C14_FailedWriteHasNoEffect ==
  /\ [](\A h \in Handlers :
          (handler[h].pc = "finally" /\ handler[h].res # "ok") =>
            /\ handler[h].reported
            /\ ~handler[h].fired
            /\ handler[h].insert = "none"
            /\ handler[h].ins = ZeroUsers
            /\ handler[h].att = ZeroUsers)
  /\ [][\A h \in Handlers :
          /\ (Writes(h) /\ handler'[h].res # "ok") => task_completions' = task_completions
          /\ (Responds(h) /\ handler[h].res # "ok") =>
               /\ handler'[h].pc = "finally"
               /\ checklist' = checklist
               /\ allCompletedNotified' = allCompletedNotified
               /\ task_completions' = task_completions
               /\ notifications' = notifications
          /\ (handler[h].pc = "finally" /\ handler'[h].pc = "idle") =>
               completing'[handler[h].view] = NoTask]_vars

\* a toggle whose insert was rejected has reported the failure
C14_Witness ==
  \E h \in Handlers :
    /\ handler[h].pc = "finally"
    /\ handler[h].res = "conflict"
    /\ handler[h].reported
    /\ completing[handler[h].view] = handler[h].item

\* C11: the assignment pass of a checklist creation attempts no dispatch to an
\* employee before its batch insert of the in-app records has returned.
C11_AssignedInAppBeforeDispatch ==
  (create.pc # "idle" /\ (create.pc = "dispatch" \/ \E u \in Users : create.att[u] > 0)) =>
    create.insert # "none"

\* C12: in both notify passes a failed dispatch stops nothing: when the pass
\* is over every recipient read with a phone number has had exactly one
\* attempt, nobody else has had one, no recipient ever has two, and the pass
\* has run to its end (the in-app insert was issued, no failure reported).
C12_DispatchIsolation ==
  /\ \A h \in Handlers :
       /\ \A u \in Users : handler[h].att[u] <= 1
       /\ (handler[h].pc = "finally" /\ HasPhone(handler[h].profs) # {}) =>
            /\ \A u \in Users :
                 handler[h].att[u] = IF u \in HasPhone(handler[h].profs) THEN 1 ELSE 0
            /\ handler[h].failed \subseteq HasPhone(handler[h].profs)
            /\ ~handler[h].reported
  /\ \A u \in Users : create.att[u] <= 1
  /\ (create.pc = "finally" /\ HasPhone(create.profs) # {}) =>
       /\ \A u \in Users : create.att[u] = IF u \in HasPhone(create.profs) THEN 1 ELSE 0
       /\ create.failed \subseteq HasPhone(create.profs)
       /\ create.insert # "none"
       /\ create.toast = "success"

\* the assignment pass lost its dispatch to e1 and still tried e2; later the
\* all-complete pass lost its dispatch to a1 and still tried a3
C12_Witness ==
  /\ create.failed = {"e1"}
  /\ create.att["e2"] = 1
  /\ \E h \in Handlers :
       /\ handler[h].pc = "finally"
       /\ handler[h].failed = {"a1"}
       /\ handler[h].att["a3"] = 1

\* C15: when a creation for department D has reported success, every user
\* assigned to D holds exactly one checklist_assigned record of the new
\* checklist and nobody else holds one (stated for the submissions that read
\* the assignments and got the answer of their batch insert from the store).
C15_OneAssignedRecordPerEmployee ==
  (create.pc = "finally" /\ create.toast = "success" /\ create.insert \in {"ok", "check"}) =>
    \A u \in Users :
      notifications_assigned[u] =
        IF <<u, create.departmentId>> \in employee_assignments THEN 1 ELSE 0

\* a request has been answered by one of the send-notification handlers
Served == ep.variant # "none" /\ ep.resp # NoResp
GenericErrors == {<<"An unexpected error occurred">>, <<"Notification service not configured">>}
ProviderDetail == {"provider.errorText", "provider.status"}

\* C16: every request to the dispatch endpoint without a valid bearer
\* credential (no Authorization header, another scheme, an unresolved token)
\* is answered 401 and reaches no provider call.
C16_NoCredentialNoDispatch ==
  (Served /\ ep.req.method = "POST" /\ ep.req.auth # "bearer_user") =>
    (ep.resp.status = 401 /\ ep.resp.calls = <<>>)

\* C17: an authenticated, well-formed request whose title is over 200 or whose
\* message is over 2000 characters is answered 400 "Title or message too long"
\* without a provider call, and no provider call carries a longer title or
\* message, built ones included.
C17_LengthLimits ==
  Served =>
    /\ (/\ ep.variant \in {"title", "channels"}
        /\ ep.req.method = "POST" /\ ep.req.auth = "bearer_user"
        /\ ep.env.configured /\ ep.env.bodyOk
        /\ ep.req.userId /\ ep.req.userEmail
        /\ ep.req.title > 0 /\ ep.req.message > 0
        /\ (ep.req.title > MaxTitleLen \/ ep.req.message > MaxMessageLen)) =>
         /\ ep.resp.status = 400
         /\ ep.resp.error = <<"Title or message too long">>
         /\ ep.resp.calls = <<>>
    /\ \A i \in DOMAIN ep.resp.calls :
         /\ ep.resp.calls[i].title <= MaxTitleLen
         /\ ep.resp.calls[i].message <= MaxMessageLen

\* C18: the error of a 500 answer is one of the fixed generic messages; it
\* holds no part of the provider's answer and is not the message of the
\* exception that was caught.
C18_NoErrorDetailInResponse ==
  (Served /\ ep.resp.status = 500) =>
    /\ ep.resp.error \in GenericErrors
    /\ \A i \in DOMAIN ep.resp.error : ep.resp.error[i] \notin ProviderDetail
    /\ ep.resp.exc # <<>> => ep.resp.error # ep.resp.exc

\* the templates a handler sends its email through
EmailTemplates == {"hr_management", "checklist_complete", "notificantios"}

\* C19: an accepted request has its email attempted; a call on the SMS
\* template is made only with a phone number and sendSms, one on the voice
\* template only with a phone number and sendCall; and the per-channel answer
\* names SMS or voice only when that call was made and went through.
C19_ChannelsAttempted ==
  (Served /\ ep.req.method = "POST" /\ ep.resp.status = 200) =>
    LET calls == ep.resp.calls
        smsCall == \E i \in DOMAIN calls : calls[i].notificationId = "checklist_complete_sms"
        voiceCall == \E i \in DOMAIN calls : calls[i].notificationId = "checklist_complete_call"
    IN /\ \E i \in DOMAIN calls : calls[i].notificationId \in EmailTemplates
       /\ smsCall => (ep.req.userPhone /\ ep.req.sendSms)
       /\ voiceCall => (ep.req.userPhone /\ ep.req.sendCall)
       /\ "sms" \in ep.resp.channels => smsCall
       /\ "call" \in ep.resp.channels => voiceCall

RowsOf(u) ==
  [auth |-> u \in accounts.auth, profile |-> u \in accounts.profiles,
   roles |-> {r \in Roles : <<u, r>> \in accounts.roles},
   assignments |-> u \in accounts.assignments, completions |-> u \in accounts.completions,
   notifications |-> u \in accounts.notifications]
NoRows ==
  [auth |-> FALSE, profile |-> FALSE, roles |-> {}, assignments |-> FALSE,
   completions |-> FALSE, notifications |-> FALSE]

\* C21: a delete request of an admin for the admin's own id is answered 400
\* "Cannot delete your own account" on reading the body, that step changes no
\* row, and no delete step ever runs for the caller's own id.
C21_SelfDeleteRefused ==
  /\ [][(mu.pc = "body" /\ mu.req.body.action = "delete"
           /\ mu.req.body.userId = mu.callingUser) =>
          /\ mu'.pc = "done"
          /\ mu'.status = 400
          /\ mu'.error = "Cannot delete your own account"
          /\ accounts' = accounts]_vars
  /\ [](mu.pc \in {"deleteRows", "deleteUser"} => mu.req.body.userId # mu.callingUser)

\* the admin a1 asked for the deletion of a1 and was refused; every row of
\* a1 is still there
C21_Witness ==
  /\ mu.pc = "done"
  /\ mu.callingUser = "a1"
  /\ mu.req.body.action = "delete"
  /\ mu.req.body.userId = "a1"
  /\ mu.status = 400
  /\ mu.error = "Cannot delete your own account"
  /\ accounts = InitAccounts

\* C22: the create path ends with a success response and exactly one
\* identity, one profile and one role of the new user, or with a non-success
\* response and none of the three.
C22_CreateAtomic ==
  [][(mu.pc \in {"createUser", "profile", "roleInsert"} /\ mu'.pc = "done") =>
       IF mu'.status = 200
       THEN /\ NewUser \in accounts'.auth
            /\ NewUser \in accounts'.profiles
            /\ Cardinality({r \in Roles : <<NewUser, r>> \in accounts'.roles}) = 1
       ELSE \/ accounts' = accounts /\ mu.pc = "createUser"
            \/ /\ NewUser \notin accounts'.auth
               /\ NewUser \notin accounts'.profiles
               /\ {r \in Roles : <<NewUser, r>> \in accounts'.roles} = {}]_vars

\* C23: after a 200 answer to a delete request for user X, the store holds
\* no assignment, completion, notification, role, profile or identity of X.
C23_DeleteRemovesEverything ==
  (mu.pc = "done" /\ mu.req.method # "OPTIONS" /\ mu.req.body.action = "delete"
     /\ mu.status = 200) =>
    RowsOf(mu.req.body.userId) = NoRows

\* the deletion of e1 was answered 200 and the store holds nothing of e1
C23_Witness ==
  /\ mu.pc = "done"
  /\ mu.req.method = "POST"
  /\ mu.req.body.action = "delete"
  /\ mu.req.body.userId = "e1"
  /\ mu.status = 200
  /\ RowsOf("e1") = NoRows


\* how often handler name occurs in the calls of the delivered event
TimesCalled(name) ==
  Cardinality({i \in 1..Len(delivered.calls) : delivered.calls[i] = name})
\* the handler the event's operation kind selects
Chosen(eventType) ==
  CASE eventType = "INSERT" -> "onInsert"
    [] eventType = "UPDATE" -> "onUpdate"
    [] eventType = "DELETE" -> "onDelete"

\* C24: for every delivered change event, onChange (when supplied) is called
\* once and before any other handler, then the one handler of onInsert,
\* onUpdate, onDelete that the event's kind selects is called once (when
\* supplied), and the other two are not called.
C24_DispatchByKind ==
  delivered # NoEvent =>
    /\ TimesCalled("onChange") = IF "onChange" \in delivered.supplied THEN 1 ELSE 0
    /\ \A i \in 1..Len(delivered.calls) : delivered.calls[i] = "onChange" => i = 1
    /\ \A name \in {"onInsert", "onUpdate", "onDelete"} :
         TimesCalled(name) =
           IF name = Chosen(delivered.eventType) /\ name \in delivered.supplied THEN 1 ELSE 0

\* an INSERT event was delivered to a subscription with all four handlers
C24_Witness ==
  /\ delivered # NoEvent
  /\ delivered.eventType = "INSERT"
  /\ delivered.supplied = HandlerNames
  /\ delivered.calls = <<"onChange", "onInsert">>

\* C25: while the view is mounted exactly one channel is open, the one of the
\* last effect, subscribed with the current options; after the unmount no
\* channel is open, so every channel the hook created has been removed.
C25_OneChannelPerMountedHook ==
  /\ hook.stage = "mounted" =>
       openChannels = {[id |-> hook.channelRef, options |-> hook.options]}
  /\ hook.stage # "mounted" => openChannels = {}
  /\ \A c \in openChannels : c.id <= nChannels

\* the view was rendered with changed dependencies at least once and then
\* unmounted
C25_Witness ==
  /\ hook.stage = "unmounted"
  /\ nChannels >= 2
  /\ openChannels = {}


\* C26: in a single-task checklist and one session, toggling the task on,
\* off and on again (at most three toggles) gives one all-complete notify
\* pass: a pass starts only when no earlier pass of the session has left its
\* records.
C26_OnePassForOnOffOn ==
  [][(nToggles <= 3 /\ ~handler["h1"].fired /\ handler'["h1"].fired) =>
       \A a \in Users : notifications[a] = 0]_vars


\* C28: in a view where toggles may overlap, once no toggle is in flight the
\* view's completed flags equal the persisted completion records, and if the
\* records cover every task the all-complete notify pass has fired.
C28_NoStaleSnapshot ==
  (\A h \in Handlers : handler[h].pc = "idle") =>
    /\ \A t \in checklist_items : checklist["v1"][t] = (task_completions[t] > 0)
    /\ StoreFull => allCompletedNotified["v1"]


\* C29: under any interleaving of toggles with the admin's task additions
\* and removals, every completion record references an existing task, the
\* records are at most as many as the tasks, and the row the Checklists page
\* holds for the checklist is in exactly one of the Pending and Completed
\* groups.
C29_CompletionsWithinTasks ==
  /\ \A t \in Tasks : task_completions[t] > 0 => t \in checklist_items
  /\ CountCompletions(task_completions) <= Cardinality(checklist_items)
  /\ ChecklistsCompleted(listRow) # ChecklistsPending(listRow)

\* C30: when handleSubmit reports failure, no checklist row, task row or
\* assignment notification of the submission is persisted; when it reports
\* success, the checklist row and its n valid tasks are persisted (task i of
\* the form is the row with id i and sort_order i - 1).
C30_NoPartialCreation ==
  create.pc = "finally" =>
    /\ create.toast = "failure" =>
         /\ checklists = {}
         /\ checklist_items = {}
         /\ notifications_assigned = ZeroUsers
    /\ create.toast = "success" =>
         /\ checklists = {TheChecklist}
         /\ checklist_items = 1..create.n


\* C27: a notification record that exists before and after a step keeps its
\* recipient, title and type, and its is_read flag changes only to true and
\* only for a record of the caller; no step adds a record; and when the page
\* reports a deletion as successful the record is gone from the store.
C27_NotificationFrame ==
  /\ [][/\ DOMAIN notification_rows' \subseteq DOMAIN notification_rows
        /\ \A id \in DOMAIN notification_rows' :
             /\ notification_rows'[id].user_id = notification_rows[id].user_id
             /\ notification_rows'[id].title = notification_rows[id].title
             /\ notification_rows'[id].type = notification_rows[id].type
             /\ notification_rows[id].is_read => notification_rows'[id].is_read
             /\ notification_rows'[id].is_read # notification_rows[id].is_read =>
                  notification_rows[id].user_id = who]_vars
  /\ [](notificationsPage.toast = "Notification deleted" =>
          notificationsPage.target \notin DOMAIN notification_rows)

====
